---- MODULE Spec2Model ----
(***************************************************************************)
(* Model of the data-operations ingestion drivers:                         *)
(*   - src/etl/airnow&merra-2/merra-2.py   (MERRA-2, append per granule)   *)
(*   - src/etl/airnow&merra-2/airnow.py    (AirNow, one request per day)   *)
(*   - src/etl/extract_load_no2.py with services/earth_data/client.py and  *)
(*     services/google/bigquery.py         (NO2, truncate-replace)         *)
(* Coordinates are integers in millidegrees.  One behaviour is one run of  *)
(* one driver against a remote world (catalog, downloads, warehouse) whose *)
(* answers are chosen nondeterministically.                                *)
(***************************************************************************)
EXTENDS Integers, Sequences, FiniteSets, TLC

VARIABLES
    driver,        \* which script runs: "merra2", "airnow" or "no2"
    pc,            \* position of the run in its script
    outcome,       \* "running", "returned" or "raised"
    exc,           \* the exception that left the run, "none" otherwise
    retval,        \* the value the driver returned
    cfgOK,         \* required environment variables are all set
    is_authenticated, \* auth.authenticated as the Earthdata login left it
    dsExists,      \* the destination dataset exists in the warehouse
    sink0,         \* rows of the destination table when the run started
    sink,          \* rows of the destination table
    lastLoad,      \* the latest load request issued to the warehouse
    nLoads,        \* number of load requests issued so far
    creates,       \* create_dataset calls, each with the check result before it
    errLog,        \* error-level log lines written by the upload code
    calls,         \* kinds of remote calls the run has issued so far
    results,       \* number of granules the catalog search returned
    gi,            \* 1-based index of the granule (or day) being processed
    dlLog,         \* outcome of each ea.download call of the run, in order
    saved,         \* files still to be processed in the current inner loop
    scratch,       \* paths that exist: the scratch directory and the files in it
    loaded_total,  \* merra-2.py run_ingest counter
    file_paths,    \* client.py get_data: paths collected so far
    frames,        \* accumulated per-unit tables (list of tables)
    tries,         \* airnow.py fetch_day: attempts made for the current day
    reqLog,        \* outcomes of the HTTP requests of the latest day
    waits,         \* delays slept after the failed requests of the latest day
    dayResult,     \* per day, what fetch_day returned
    run,           \* 1 for the first run of the driver, 2 for a second run
    prev,          \* what the first run found and extracted, once it is over
    peer,          \* a concurrent run of the same script: its counter, its last file
    fnArg,         \* the input of a function applied on its own
    fnRes          \* what that function returned

vars == <<driver, pc, outcome, exc, retval, cfgOK, is_authenticated, dsExists, sink0,
          sink, lastLoad, nLoads, creates, errLog, calls, results, gi, dlLog, saved,
          scratch, loaded_total, file_paths, frames, tries, reqLog, waits, dayResult,
          run, prev, peer, fnArg, fnRes>>

-----------------------------------------------------------------------------
(* Bounds of the model *)

MaxGranules == 2
MaxFiles == 1
MaxDays == 2
LonStep == 125
MaxKeep == 2

(* Program constants *)

MaxTries == 5

-----------------------------------------------------------------------------
(* Geofence: the California polygon, (lon, lat) in millidegrees *)

polygon_coords ==
    << <<-120009, 41973>>, <<-124605, 41890>>, <<-120446, 33904>>,
       <<-117107, 32618>>, <<-114296, 32655>>, <<-114164, 34305>>,
       <<-114735, 35100>>, <<-120095, 39025>>, <<-120009, 41973>> >>

RECURSIVE SeqMin(_), SeqMax(_)
SeqMin(s) == IF Len(s) = 1 THEN s[1]
             ELSE LET m == SeqMin(Tail(s)) IN IF s[1] < m THEN s[1] ELSE m
SeqMax(s) == IF Len(s) = 1 THEN s[1]
             ELSE LET m == SeqMax(Tail(s)) IN IF s[1] > m THEN s[1] ELSE m

get_bbox(poly) ==
    LET lons == [k \in 1..Len(poly) |-> poly[k][1]]
        lats == [k \in 1..Len(poly) |-> poly[k][2]]
    IN  [lon_min |-> SeqMin(lons), lat_min |-> SeqMin(lats),
         lon_max |-> SeqMax(lons), lat_max |-> SeqMax(lats)]

bbox == get_bbox(polygon_coords)

(* One edge of the polygon crosses the horizontal ray going right from (x, y). *)
EdgeCrosses(p, q, x, y) ==
    /\ (p[2] > y) # (q[2] > y)
    /\ IF q[2] > p[2]
       THEN (x - p[1]) * (q[2] - p[2]) < (q[1] - p[1]) * (y - p[2])
       ELSE (x - p[1]) * (q[2] - p[2]) > (q[1] - p[1]) * (y - p[2])

(* matplotlib Path.contains_points for one point of poly_path: an odd      *)
(* number of crossings.  Points outside the bounding box are outside;      *)
(* testing them first keeps the products within machine integers.          *)
contains_point(x, y) ==
    /\ x >= bbox.lon_min /\ x <= bbox.lon_max
    /\ y >= bbox.lat_min /\ y <= bbox.lat_max
    /\ Cardinality({k \in 1..(Len(polygon_coords) - 1) :
           EdgeCrosses(polygon_coords[k], polygon_coords[k + 1], x, y)}) % 2 = 1

-----------------------------------------------------------------------------
(* Tables.  A row is a record                                              *)
(*   [hasPt, lon, lat, val, time]                                          *)
(* hasPt: the table has coordinate columns; val: "num" or "NaN";           *)
(* time: "ok", "NaT" (null timestamp) or "absent" (no time column).        *)

Row(hasPt, lon, lat, val, time) ==
    [hasPt |-> hasPt, lon |-> lon, lat |-> lat, val |-> val, time |-> time]

IsNullRow(r) == r.val = "NaN" \/ r.time = "NaT"

InsidePoly(r) == r.hasPt /\ contains_point(r.lon, r.lat)

RECURSIVE Concat(_)
Concat(ss) == IF ss = <<>> THEN <<>> ELSE Head(ss) \o Concat(Tail(ss))

RangeOf(s) == {s[k] : k \in 1..Len(s)}

(* df.dropna(how="any") *)
dropna(rows) == SelectSeq(rows, LAMBDA r : ~IsNullRow(r))

(* df.loc[mask] with mask = poly_path.contains_points(lon, lat) *)
mask_polygon(rows) ==
    SelectSeq(rows, LAMBDA r : contains_point(r.lon, r.lat))

-----------------------------------------------------------------------------
(* Downloaded files.  A dataset is a grid                                   *)
(*   [hasCoords, lats, lons, bad]                                           *)
(* hasCoords: the coordinates carry the names the reader expects;           *)
(* lats, lons: the coordinate axes; bad: the cells whose value is NaN.      *)

Grid(named, lats, lons, bad) ==
    [hasCoords |-> named, lats |-> lats, lons |-> lons, bad |-> bad]

(* Sample files: three cells inside the polygon with a NaN in the middle   *)
(* one; a NaN cell inside and a cell outside; the first grid in the 0..360 *)
(* convention with a cell at the origin; an empty grid; a grid whose       *)
(* coordinates carry other names.                                          *)
Datasets ==
    { Grid(TRUE, <<37000, 45000>>, <<-121000, -119000, -118000>>, {<<37000, -119000>>}),
      Grid(TRUE, <<37000>>, <<-121000, -116000>>, {<<37000, -121000>>}),
      Grid(TRUE, <<37000>>, <<0, 239000, 241000, 242000>>, {<<37000, 241000>>}),
      Grid(TRUE, <<>>, <<-121000>>, {}),
      Grid(FALSE, <<37000>>, <<-121000>>, {}) }

(* Dataset.to_dataframe().reset_index(): one row per cell, lat-major. *)
to_dataframe(ds) ==
    [k \in 1..(Len(ds.lats) * Len(ds.lons)) |->
        LET la == ds.lats[((k - 1) \div Len(ds.lons)) + 1]
            lo == ds.lons[((k - 1) % Len(ds.lons)) + 1]
        IN  Row(ds.hasCoords, lo, la,
                IF <<la, lo>> \in ds.bad THEN "NaN" ELSE "num", "ok")]

lon_unchanged(arr) == arr

to_minus180_180(arr) == ((arr + 180000) % 360000) - 180000

(* ds.assign_coords(lon=to_minus180_180(ds.lon)).sortby("lon") *)
assign_sorted_lon(ds) ==
    [ds EXCEPT
        !.lons = SortSeq([k \in 1..Len(ds.lons) |-> to_minus180_180(ds.lons[k])],
                         LAMBDA a, b : a < b),
        !.bad = {<<c[1], to_minus180_180(c[2])>> : c \in ds.bad}]

(* ds.sel(lat=slice(lat_min, lat_max), lon=slice(lon_min, lon_max)) *)
sel_bbox(ds) ==
    [ds EXCEPT
        !.lats = SelectSeq(ds.lats, LAMBDA y : y >= bbox.lat_min /\ y <= bbox.lat_max),
        !.lons = SelectSeq(ds.lons, LAMBDA x : x >= bbox.lon_min /\ x <= bbox.lon_max)]

(* merra-2.py ds_to_dataframe, lines 115-118: the data variables kept in   *)
(* ds_clip, in order, for an allow-list keep_vars (<<>> when none is given) *)
(* and the data variables data_vars of the file.                            *)
keep_columns(keep_vars, data_vars) ==
    IF keep_vars # <<>>
    THEN LET present == SelectSeq(keep_vars, LAMBDA v : v \in RangeOf(data_vars))
         IN  IF present # <<>> THEN present ELSE data_vars
    ELSE data_vars

(* merra-2.py ds_to_dataframe: [raised, rows] *)
ds_to_dataframe(ds) ==
    IF ~ds.hasCoords
    THEN [raised |-> TRUE, rows |-> <<>>]
    ELSE LET ds1 == IF ds.lons # <<>> /\ SeqMax(ds.lons) > 180000
                    THEN assign_sorted_lon(ds) ELSE ds
             df  == dropna(to_dataframe(sel_bbox(ds1)))
         IN  [raised |-> FALSE,
              rows |-> IF df # <<>> THEN mask_polygon(df) ELSE df]

-----------------------------------------------------------------------------
(* Warehouse *)

(* One load request: the table sent, the write disposition, whether the   *)
(* call and job.result() returned, and the errors the finished job reports. *)
Load(rows, mode, ok) == [rows |-> rows, mode |-> mode, ok |-> ok, errors |-> <<>>]

(* Effect of one load request on the destination table. *)
apply_load_replace(tbl, req) == IF ~req.ok THEN tbl ELSE req.rows

apply_load(tbl, req) ==
    IF ~req.ok THEN tbl
    ELSE IF req.mode = "append" THEN tbl \o req.rows ELSE req.rows

RECURSIVE apply_loads(_, _)
apply_loads(tbl, reqs) ==
    IF reqs = <<>> THEN tbl ELSE apply_loads(apply_load(tbl, Head(reqs)), Tail(reqs))

(* What get_dataset can answer in a world where the dataset exists or not. *)
CheckOutcomes(exists) == IF exists THEN {"ok", "error"} ELSE {"notfound", "error"}

(* create_dataset succeeds only when the dataset is absent. *)
CreateOutcomes(exists) == IF exists THEN {FALSE} ELSE {TRUE, FALSE}

(* merra-2.py / airnow.py ensure_dataset: create on any failure of the check. *)
ensure_dataset(chk, crtOK) ==
    IF chk = "ok"
    THEN [calls |-> <<>>, raised |-> FALSE]
    ELSE [calls |-> <<[after |-> chk, ok |-> crtOK]>>, raised |-> ~crtOK]

(* merra-2.py upload_df: always issues the load. *)
merra2_upload_df_truncate(df, ok) == <<Load(df, "truncate", ok)>>

merra2_upload_df(df, ok) == <<Load(df, "append", ok)>>

-----------------------------------------------------------------------------
(* State shared by the three drivers *)

Drivers == {"merra2", "airnow", "no2"}

NoneVal == [kind |-> "None"]

Summary(rows, granules) ==
    [kind |-> "summary", rows_total |-> rows, granules |-> granules]

NoLoad == Load(<<>>, "none", FALSE)

(* A row left in the destination table by an earlier run. *)
OldRow == Row(TRUE, -119000, 37000, "num", "ok")

(* The path of the scratch directory itself (DATA_DIR, tmpdir); the file   *)
(* k of granule g is <<g, k>>.                                              *)
TmpDir == <<0, 0>>

fnVars == <<fnArg, fnRes>>
envVars == <<driver, cfgOK, sink0, is_authenticated, run, prev, peer, fnVars>>
ctlVars == <<pc, outcome, exc, retval>>
whVars == <<dsExists, sink, lastLoad, nLoads, creates, errLog>>
loopVars == <<results, gi, dlLog, saved, scratch>>
airVars == <<tries, reqLog, waits, dayResult>>

InitRun ==
    /\ driver \in Drivers
    /\ pc = "start"
    /\ outcome = "running"
    /\ exc = "none"
    /\ retval = NoneVal
    /\ cfgOK \in IF driver = "no2" THEN {TRUE} ELSE BOOLEAN
    /\ is_authenticated = FALSE
    /\ dsExists \in BOOLEAN
    /\ sink0 \in IF dsExists THEN {<<>>, <<OldRow>>} ELSE {<<>>}
    /\ sink = sink0
    /\ lastLoad = NoLoad
    /\ nLoads = 0
    /\ creates = <<>>
    /\ errLog = <<>>
    /\ calls = {}
    /\ results = 0
    /\ gi = 1
    /\ dlLog = <<>>
    /\ saved = <<>>
    /\ scratch = IF driver = "merra2" THEN {TmpDir} ELSE {}
    /\ loaded_total = 0
    /\ file_paths = <<>>
    /\ frames = <<>>
    /\ tries = 0
    /\ reqLog = <<>>
    /\ waits = <<>>
    /\ dayResult = <<>>
    /\ run = 1
    /\ prev = NoneVal
    /\ peer = [loaded_total |-> 0, last |-> TmpDir]

(* A run of a driver: no function is applied on its own. *)
Init == InitRun /\ fnArg = NoneVal /\ fnRes = NoneVal

(* The run leaves its script with an exception. *)
Raise(e) ==
    /\ outcome' = "raised"
    /\ exc' = e
    /\ pc' = "done"
    /\ retval' = retval

(* The run returns v to its caller. *)
Return(v) ==
    /\ outcome' = "returned"
    /\ retval' = v
    /\ pc' = "done"
    /\ exc' = exc

(* The run goes on at position p. *)
Goto(p) ==
    /\ pc' = p
    /\ UNCHANGED <<outcome, exc, retval>>

(* The warehouse receives the load requests reqs (none or one). *)
IssueLoads(reqs) ==
    /\ lastLoad' = IF reqs = <<>> THEN lastLoad ELSE reqs[Len(reqs)]
    /\ nLoads' = nLoads + Len(reqs)
    /\ sink' = apply_loads(sink, reqs)

(* The warehouse receives the create_dataset calls of one existence check. *)
IssueCreates(cs) ==
    /\ creates' = creates \o cs
    /\ dsExists' = (dsExists \/ \E k \in 1..Len(cs) : cs[k].ok)

(* The run issues remote calls of the kinds ks. *)
Remote(ks) == calls' = calls \cup ks

(* Remote calls of one dataset check: get_dataset, then the creates. *)
EnsureCalls(e) ==
    {"get_dataset"} \cup (IF e.calls # <<>> THEN {"create_dataset"} ELSE {})

(* Remote calls behind a list of load requests. *)
LoadCalls(reqs) == IF reqs # <<>> THEN {"load"} ELSE {}

File(path, ds) == [path |-> path, ds |-> ds]

(* What one ea.download call can bring: the contents of up to MaxFiles files. *)
FileLists == UNION { [1..n -> Datasets] : n \in 0..MaxFiles }

-----------------------------------------------------------------------------
(* MERRA-2 script *)

(* if not auth.authenticated: raise *)
login_never_raises(authenticated) == FALSE

login_raises(authenticated) == ~authenticated

(* Module level: auth = ea.login(persist=False) *)
MerraLogin ==
    /\ driver = "merra2" /\ pc = "start"
    /\ Remote({"login"})
    /\ \E authenticated \in BOOLEAN :
          /\ is_authenticated' = authenticated
          /\ IF login_raises(authenticated)
             THEN Raise("RuntimeError: Earthaccess login failed")
             ELSE Goto("search")
    /\ UNCHANGED <<driver, cfgOK, sink0, run, prev, peer, fnVars, whVars, loopVars,
                   loaded_total, file_paths, frames, airVars>>

(* Module level: results = ea.search_data(...) *)
MerraSearch ==
    /\ driver = "merra2" /\ pc = "search"
    /\ Remote({"search"})
    /\ \E n \in 0..MaxGranules : results' = n
    /\ Goto("run_ingest")
    /\ UNCHANGED <<envVars, whVars, gi, dlLog, saved, scratch, loaded_total,
                   file_paths, frames, airVars>>

(* run_ingest up to the loop: configuration check, client, ensure_dataset *)
MerraRunIngest ==
    /\ driver = "merra2" /\ pc = "run_ingest"
    /\ IF ~cfgOK
       THEN /\ Raise("RuntimeError: Faltan BQ_PROJECT_ID")
            /\ UNCHANGED <<dsExists, creates, calls>>
       ELSE \E chk \in CheckOutcomes(dsExists), crtOK \in CreateOutcomes(dsExists) :
               LET e == ensure_dataset(chk, crtOK) IN
               /\ IssueCreates(e.calls)
               /\ Remote(EnsureCalls(e))
               /\ IF e.raised THEN Raise("create_dataset failed") ELSE Goto("loop")
    /\ loaded_total' = 0
    /\ UNCHANGED <<envVars, sink, lastLoad, nLoads, errLog, loopVars, file_paths,
                   frames, airVars>>

(* loaded_total += len(df), reached only after upload_df returned *)
count_before_upload(df, uploaded) == Len(df)

count_loaded(df, uploaded) == IF uploaded THEN Len(df) ELSE 0

(* df = ds_to_dataframe(ds, keep_vars=KEEP_VARS) for each sample file *)
file_frames == [ds \in Datasets |-> ds_to_dataframe(ds)]

(* Body of the per-file try block of run_ingest: the loads it issues and   *)
(* the rows it adds to loaded_total.                                        *)
process_file(ds, openOK, uploadOK) ==
    IF ~openOK
    THEN [loads |-> <<>>, inc |-> 0]
    ELSE LET d == file_frames[ds] IN
         IF d.raised \/ d.rows = <<>>
         THEN [loads |-> <<>>, inc |-> 0]
         ELSE [loads |-> merra2_upload_df(d.rows, uploadOK),
               inc |-> count_loaded(d.rows, uploadOK)]

(* One iteration of the granule loop whose ea.download raises: continue *)
MerraDownloadFails ==
    /\ driver = "merra2" /\ pc = "loop" /\ gi <= results
    /\ Remote({"download"})
    /\ dlLog' = Append(dlLog, "failed")
    /\ gi' = gi + 1
    /\ UNCHANGED <<envVars, ctlVars, whVars, results, saved, scratch, loaded_total,
                   file_paths, frames, airVars>>

(* One iteration of the granule loop up to the end of a successful ea.download *)
MerraDownload ==
    /\ driver = "merra2" /\ pc = "loop" /\ gi <= results
    /\ Remote({"download"})
    /\ dlLog' = Append(dlLog, "ok")
    /\ \E files \in FileLists :
          /\ saved' = [k \in 1..Len(files) |-> File(<<gi, k>>, files[k])]
          /\ scratch' = scratch \cup {<<gi, k>> : k \in 1..Len(files)}
          /\ IF files = <<>>
             THEN gi' = gi + 1 /\ UNCHANGED ctlVars
             ELSE gi' = gi /\ Goto("files")
    /\ UNCHANGED <<envVars, whVars, results, loaded_total, file_paths, frames, airVars>>

(* One iteration of the loop over saved_paths, with its finally clause *)
MerraFile ==
    /\ driver = "merra2" /\ pc = "files"
    /\ \E openOK \in BOOLEAN, uploadOK \in BOOLEAN, unlinkOK \in BOOLEAN :
          LET f == Head(saved)
              r == process_file(f.ds, openOK, uploadOK)
          IN  /\ IssueLoads(r.loads)
              /\ Remote(LoadCalls(r.loads))
              /\ loaded_total' = loaded_total + r.inc
              /\ scratch' = IF unlinkOK THEN scratch \ {f.path} ELSE scratch
    /\ saved' = Tail(saved)
    /\ IF Tail(saved) = <<>>
       THEN gi' = gi + 1 /\ Goto("loop")
       ELSE gi' = gi /\ UNCHANGED ctlVars
    /\ UNCHANGED <<envVars, dsExists, creates, errLog, results, dlLog, file_paths,
                   frames, airVars>>

(* return {"rows_total": loaded_total, "granules": len(results)} *)
MerraReturn ==
    /\ driver = "merra2" /\ pc = "loop" /\ gi > results
    /\ Return(Summary(loaded_total, results))
    /\ UNCHANGED <<envVars, calls, whVars, loopVars, loaded_total, file_paths, frames, airVars>>

NextMerra == \/ MerraLogin \/ MerraSearch \/ MerraRunIngest \/ MerraDownloadFails
             \/ MerraDownload \/ MerraFile \/ MerraReturn

InitMerra == Init /\ driver = "merra2"

SpecMerra == InitMerra /\ [][NextMerra]_vars

(* A second MERRA-2 run in another process, executing at the same time     *)
(* over the same granules and the same destination table, with a scratch   *)
(* directory of its own: it has downloaded the granule file this run is    *)
(* about to process and runs the same per-file block on it, its upload     *)
(* succeeding (a failed one leaves nothing this run could see).            *)
PeerFile ==
    /\ driver = "merra2" /\ pc = "files"
    /\ Head(saved).path # peer.last
    /\ LET r == process_file(Head(saved).ds, TRUE, TRUE) IN
       /\ r.loads # <<>>
       /\ sink' = apply_loads(sink, r.loads)
       /\ peer' = [loaded_total |-> peer.loaded_total + r.inc,
                   last |-> Head(saved).path]
    /\ UNCHANGED <<driver, cfgOK, sink0, is_authenticated, run, prev, fnVars, ctlVars,
                   dsExists, lastLoad, nLoads, creates, errLog, calls, loopVars,
                   loaded_total, file_paths, frames, airVars>>

NextConcurrent == NextMerra \/ PeerFile

(* Both runs were started with their configuration set, against a dataset  *)
(* that exists.                                                             *)
InitConcurrent == InitMerra /\ cfgOK /\ dsExists

SpecConcurrent == InitConcurrent /\ [][NextConcurrent]_vars

-----------------------------------------------------------------------------
(* AirNow script *)

AirRec(lon, lat, conc, date) == [lon |-> lon, lat |-> lat, conc |-> conc, date |-> date]

(* Record lists an HTTP 200 answer can carry: conc is "num" or "NaN" (not   *)
(* numeric, coerced to NaN); date is "ok" or "bad" (malformed).             *)
RecLists ==
    { <<>>,
      <<AirRec(-116000, 37000, "num", "ok"), AirRec(-121000, 37000, "num", "ok")>>,
      <<AirRec(-116000, 37000, "num", "ok")>>,
      <<AirRec(-121000, 37000, "NaN", "ok")>>,
      <<AirRec(-119000, 37000, "num", "bad"), AirRec(-121000, 37000, "num", "ok")>> }

Shape(coords, date, ambiguous) ==
    [hasCoords |-> coords, hasDate |-> date, ambiguous |-> ambiguous]

(* Shapes of the answer: which keys the records carry, and whether          *)
(* tz_localize raises on the column (ambiguous local times).                *)
Shapes ==
    { Shape(TRUE, TRUE, FALSE), Shape(FALSE, TRUE, FALSE),
      Shape(TRUE, FALSE, FALSE), Shape(TRUE, TRUE, TRUE) }

(* Bodies of an HTTP 200 answer: one that is not JSON, and the JSON ones. *)
Bodies ==
    { [json |-> FALSE, shape |-> Shape(TRUE, TRUE, FALSE), recs |-> <<>>] }
    \cup { [json |-> TRUE, shape |-> sh, recs |-> rs] : sh \in Shapes, rs \in RecLists }

(* wait = 2 ** tries *)
backoff_linear(t) == 2 * t

backoff(t) == 2 ^ t

(* time_utc of one record *)
time_utc(shape, rec) ==
    IF ~shape.hasDate THEN "absent"
    ELSE IF shape.ambiguous \/ rec.date = "bad" THEN "NaT" ELSE "ok"

(* fetch_day after the retry loop: the table built from the answer *)
fetch_day_table(body) ==
    IF ~body.json \/ body.recs = <<>>
    THEN <<>>
    ELSE LET sh == body.shape
             df == [k \in 1..Len(body.recs) |->
                       LET rec == body.recs[k] IN
                       IF sh.hasCoords
                       THEN Row(TRUE, rec.lon, rec.lat, rec.conc, time_utc(sh, rec))
                       ELSE Row(FALSE, 0, 0, rec.conc, time_utc(sh, rec))]
         IN  IF sh.hasCoords THEN mask_polygon(df) ELSE df

(* fetch_year: cur += dt.timedelta(days=1), in days from start_date *)
skip_day(cur) == cur + 2

next_day(cur) == cur + 1

(* fetch_year: if not df.empty: frames.append(df) *)
accumulate(fs, df) == IF df # <<>> THEN Append(fs, df) ELSE fs

(* airnow.py upload_df: no load for an empty table *)
airnow_upload_df(df, ok) == IF df = <<>> THEN <<>> ELSE <<Load(df, "append", ok)>>

(* The log of the day this request belongs to: fetch_day starts afresh. *)
DayLog(log) == IF tries = 0 THEN <<>> ELSE log

(* Module-level configuration check, then run_ingest up to fetch_year *)
AirnowStart ==
    /\ driver = "airnow" /\ pc = "start"
    /\ IF ~cfgOK
       THEN /\ Raise("RuntimeError: Faltan variables de entorno")
            /\ UNCHANGED <<dsExists, creates, calls, results>>
       ELSE \E chk \in CheckOutcomes(dsExists), crtOK \in CreateOutcomes(dsExists) :
               LET e == ensure_dataset(chk, crtOK) IN
               /\ IssueCreates(e.calls)
               /\ Remote(EnsureCalls(e))
               /\ IF e.raised
                  THEN Raise("create_dataset failed") /\ UNCHANGED results
                  ELSE Goto("fetch_year") /\ \E days \in 1..MaxDays : results' = days
    /\ UNCHANGED <<envVars, sink, lastLoad, nLoads, errLog, gi, dlLog, saved, scratch,
                   loaded_total, file_paths, frames, airVars>>

(* fetch_day: requests.get answers with a status other than 200; after     *)
(* the last attempt the for-else returns an empty table to fetch_year       *)
AirnowRequestFailed ==
    /\ driver = "airnow" /\ pc = "fetch_year" /\ gi <= results
    /\ Remote({"http"})
    /\ reqLog' = Append(DayLog(reqLog), "non200")
    /\ waits' = Append(DayLog(waits), backoff(tries))
    /\ IF tries + 1 < MaxTries
       THEN /\ tries' = tries + 1
            /\ UNCHANGED <<gi, frames, dayResult>>
       ELSE /\ tries' = 0
            /\ frames' = accumulate(frames, <<>>)
            /\ dayResult' = Append(dayResult, "gaveup")
            /\ gi' = next_day(gi)
    /\ UNCHANGED <<envVars, ctlVars, whVars, results, dlLog, saved, scratch,
                   loaded_total, file_paths>>

(* fetch_day: requests.get answers 200; the rest of fetch_day and the      *)
(* fetch_year iteration follow                                              *)
AirnowRequestOK ==
    /\ driver = "airnow" /\ pc = "fetch_year" /\ gi <= results
    /\ Remote({"http"})
    /\ reqLog' = Append(DayLog(reqLog), "200")
    /\ waits' = DayLog(waits)
    /\ \E body \in Bodies :
          LET df == fetch_day_table(body) IN
          /\ frames' = accumulate(frames, df)
          /\ dayResult' = Append(dayResult, IF df = <<>> THEN "empty" ELSE "data")
    /\ tries' = 0
    /\ gi' = next_day(gi)
    /\ UNCHANGED <<envVars, ctlVars, whVars, results, dlLog, saved, scratch,
                   loaded_total, file_paths>>

(* fetch_day: requests.get raises (timeout, connection error); nothing     *)
(* between the call and the caller of run_ingest catches it                 *)
AirnowRequestRaises ==
    /\ driver = "airnow" /\ pc = "fetch_year" /\ gi <= results
    /\ Remote({"http"})
    /\ reqLog' = Append(DayLog(reqLog), "raise")
    /\ waits' = DayLog(waits)
    /\ Raise("requests exception")
    /\ UNCHANGED <<envVars, whVars, loopVars, loaded_total, file_paths, frames, tries,
                   dayResult>>

(* End of fetch_year and the rest of run_ingest *)
AirnowFinish ==
    /\ driver = "airnow" /\ pc = "fetch_year" /\ gi > results
    /\ LET df == Concat(frames) IN
       IF df = <<>>
       THEN Return(NoneVal) /\ UNCHANGED <<sink, lastLoad, nLoads, calls>>
       ELSE \E ok \in BOOLEAN :
               /\ IssueLoads(airnow_upload_df(df, ok))
               /\ Remote(LoadCalls(airnow_upload_df(df, ok)))
               /\ IF ok THEN Return(NoneVal) ELSE Raise("load failed")
    /\ UNCHANGED <<envVars, dsExists, creates, errLog, loopVars, loaded_total,
                   file_paths, frames, airVars>>

NextAirnow == \/ AirnowStart \/ AirnowRequestFailed \/ AirnowRequestOK
              \/ AirnowRequestRaises \/ AirnowFinish

InitAirnow == Init /\ driver = "airnow"

SpecAirnow == InitAirnow /\ [][NextAirnow]_vars

(* The AirNow run under its scheduling: one blocking thread; every request *)
(* answers or times out after 90 s and every sleep ends, so a step that is  *)
(* possible is eventually taken.                                            *)
SpecAirnowFair == SpecAirnow /\ WF_vars(NextAirnow)

-----------------------------------------------------------------------------
(* NO2: extract_and_load_no2 over EarthDataClient.get_data and             *)
(* BigQueryClient.upload_data_from_dataframe                                *)

(* client.py _filter_polygon: data[['longitude', 'latitude']] raises        *)
(* KeyError when the table has no such columns; rows of frames without      *)
(* them carry NaN coordinates after the concat and are masked out.          *)
filter_polygon(rows) ==
    IF \A k \in 1..Len(rows) : ~rows[k].hasPt
    THEN [raised |-> TRUE, rows |-> <<>>]
    ELSE [raised |-> FALSE, rows |-> SelectSeq(rows, InsidePoly)]

(* df.drop_duplicates(): the first occurrence of each row is kept *)
RECURSIVE drop_duplicates(_)
drop_duplicates(rows) ==
    IF rows = <<>> THEN <<>>
    ELSE LET init == drop_duplicates(SubSeq(rows, 1, Len(rows) - 1))
             last == rows[Len(rows)]
         IN  IF last \in RangeOf(init) THEN init ELSE Append(init, last)

(* bigquery.py lines 71-85: create only on "Not found", re-raise the rest *)
bq_ensure_dataset(chk, crtOK) ==
    IF chk = "ok" THEN [calls |-> <<>>, raised |-> FALSE]
    ELSE IF chk = "notfound"
    THEN [calls |-> <<[after |-> chk, ok |-> crtOK]>>, raised |-> ~crtOK]
    ELSE [calls |-> <<>>, raised |-> TRUE]

(* What a load job that finished can report in result.errors. *)
JobErrors == {<<>>, <<"row error 1", "row error 2">>}

(* bigquery.py lines 96-102: load_table_from_dataframe or load_job.result() *)
(* raising leaves the method; errors of a finished job are only logged      *)
load_raises_on_row_errors(loadOK, errors) == ~loadOK \/ errors # <<>>

load_raises(loadOK, errors) == ~loadOK

(* bigquery.py lines 98-100: one error line per entry of result.errors *)
log_row_errors(errors) ==
    [k \in 1..Len(errors) |-> "Error uploading data to BigQuery: " \o errors[k]]

(* BigQueryClient.upload_data_from_dataframe: the calls it makes, what it   *)
(* logs at error level, and whether it raises                                *)
upload_data_from_dataframe(df, chk, crtOK, loadOK, errors) ==
    LET e == bq_ensure_dataset(chk, crtOK) IN
    IF e.raised
    THEN [creates |-> e.calls, loads |-> <<>>, logged |-> <<>>, raised |-> TRUE]
    ELSE LET job == [Load(df, "truncate", loadOK) EXCEPT
                        !.errors = IF loadOK THEN errors ELSE <<>>]
         IN  [creates |-> e.calls, loads |-> <<job>>,
              logged |-> IF load_raises(loadOK, errors) THEN <<>>
                         ELSE log_row_errors(job.errors),
              raised |-> load_raises(loadOK, errors)]

(* extract_load_no2.py lines 43-45: log the failure and re-raise it *)
log_and_reraise(raised) ==
    IF raised THEN <<"Error uploading data to BigQuery: exception">> ELSE <<>>

(* get_data, the inner loop body over one path: xr.open_dataset raises     *)
(* for a path that is gone; a failure of to_dataframe is not caught         *)
scan_file(dir, f, openOK, convOK) ==
    IF f.path \notin dir \/ ~openOK
    THEN [frames |-> <<>>, raised |-> FALSE, opened |-> FALSE]
    ELSE IF ~convOK
    THEN [frames |-> <<>>, raised |-> TRUE, opened |-> TRUE]
    ELSE [frames |-> accumulate(<<>>, to_dataframe(f.ds)),
          raised |-> FALSE, opened |-> TRUE]

(* finally: shutil.rmtree(tmpdir), errors swallowed *)
rmtree(dir, ok) == IF ok THEN {} ELSE dir

GetDataErrors ==
    {"get_data: download error", "get_data: conversion error", "get_data: KeyError"}

(* EarthDataClient(): ea.login and the authenticated check *)
No2Login ==
    /\ driver = "no2" /\ pc = "start"
    /\ Remote({"login"})
    /\ \E authenticated \in BOOLEAN :
          /\ is_authenticated' = authenticated
          /\ IF login_raises(authenticated)
             THEN Raise("ValueError: Failed to authenticate")
             ELSE Goto("get_data")
    /\ UNCHANGED <<driver, cfgOK, sink0, run, prev, peer, fnVars, whVars, loopVars,
                   loaded_total, file_paths, frames, airVars>>

(* get_data up to the granule loop: the authenticated check, the search,  *)
(* the early return on no granules                                          *)
No2Search ==
    /\ driver = "no2" /\ pc = "get_data"
    /\ IF ~is_authenticated
       THEN /\ Raise("ValueError: Client is not authenticated")
            /\ UNCHANGED <<calls, results, scratch>>
       ELSE /\ Remote({"search"})
            /\ \E n \in 0..MaxGranules :
                  /\ results' = n
                  /\ scratch' = IF n = 0 THEN scratch ELSE {TmpDir}
                  /\ Goto(IF n = 0 THEN "got_data" ELSE "gd_loop")
    /\ UNCHANGED <<envVars, whVars, gi, dlLog, saved, loaded_total,
                   file_paths, frames, airVars>>

(* get_data: ea.download raises one of the caught exception types *)
No2DownloadFails ==
    /\ driver = "no2" /\ pc = "gd_loop" /\ gi <= results
    /\ Remote({"download"})
    /\ dlLog' = Append(dlLog, "failed")
    /\ gi' = gi + 1
    /\ UNCHANGED <<envVars, ctlVars, whVars, results, saved, scratch, loaded_total,
                   file_paths, frames, airVars>>

(* get_data: ea.download raises another exception, or returns an empty     *)
(* list so that dl[0] raises IndexError; only the outer finally runs        *)
No2DownloadRaises ==
    /\ driver = "no2" /\ pc = "gd_loop" /\ gi <= results
    /\ Remote({"download"})
    /\ dlLog' = Append(dlLog, "raised")
    /\ \E rmOK \in BOOLEAN : scratch' = rmtree(scratch, rmOK)
    /\ Raise("get_data: download error")
    /\ UNCHANGED <<envVars, whVars, results, gi, saved, loaded_total, file_paths,
                   frames, airVars>>

(* Sample files of the NO2 product, whose longitudes are signed: the       *)
(* samples without the grid in the 0..360 convention.                       *)
No2Datasets == {ds \in Datasets : ds.lons = <<>> \/ SeqMax(ds.lons) <= 180000}

(* get_data: ea.download succeeds; file_paths.append(str(dl[0])) *)
No2Download ==
    /\ driver = "no2" /\ pc = "gd_loop" /\ gi <= results
    /\ Remote({"download"})
    /\ dlLog' = Append(dlLog, "ok")
    /\ \E n \in 1..MaxFiles, ds \in No2Datasets :
          /\ scratch' = scratch \cup {<<gi, k>> : k \in 1..n}
          /\ file_paths' = Append(file_paths, File(<<gi, 1>>, ds))
          /\ saved' = Append(file_paths, File(<<gi, 1>>, ds))
    /\ Goto("gd_files")
    /\ UNCHANGED <<envVars, whVars, results, gi, loaded_total, frames, airVars>>

(* get_data: one iteration of "for fp in file_paths" *)
No2File ==
    /\ driver = "no2" /\ pc = "gd_files"
    /\ \E openOK \in BOOLEAN, convOK \in BOOLEAN, rmOK \in BOOLEAN :
          LET f == Head(saved)
              r == scan_file(scratch, f, openOK, convOK)
          IN  IF r.raised
              THEN /\ scratch' = rmtree(scratch, rmOK)
                   /\ Raise("get_data: conversion error")
                   /\ UNCHANGED <<frames, saved, gi>>
              ELSE /\ frames' = frames \o r.frames
                   /\ scratch' = IF r.opened /\ rmOK THEN scratch \ {f.path} ELSE scratch
                   /\ saved' = Tail(saved)
                   /\ IF Tail(saved) = <<>>
                      THEN gi' = gi + 1 /\ Goto("gd_loop")
                      ELSE gi' = gi /\ UNCHANGED ctlVars
    /\ UNCHANGED <<envVars, whVars, calls, results, dlLog, loaded_total, file_paths,
                   airVars>>

(* get_data after the loop: concat, _filter_polygon, return, rmtree *)
No2GetDataEnd ==
    /\ driver = "no2" /\ pc = "gd_loop" /\ gi > results
    /\ \E rmOK \in BOOLEAN : scratch' = rmtree(scratch, rmOK)
    /\ LET f == filter_polygon(Concat(frames)) IN
       IF f.raised
       THEN Raise("get_data: KeyError") /\ UNCHANGED frames
       ELSE Goto("got_data") /\ frames' = <<f.rows>>
    /\ UNCHANGED <<envVars, whVars, calls, results, gi, dlLog, saved, loaded_total,
                   file_paths, airVars>>

(* extract_and_load_no2 after get_data returned *)
No2Load ==
    /\ driver = "no2" /\ pc = "got_data"
    /\ LET df == Concat(frames) IN
       IF df = <<>>
       THEN /\ Raise("ValueError: No data extracted")
            /\ UNCHANGED <<whVars, calls>>
       ELSE \E chk \in CheckOutcomes(dsExists), crtOK \in CreateOutcomes(dsExists),
               loadOK \in BOOLEAN, errors \in JobErrors :
               LET u == upload_data_from_dataframe(drop_duplicates(dropna(df)),
                                                   chk, crtOK, loadOK, errors)
               IN  /\ IssueCreates(u.creates)
                   /\ IssueLoads(u.loads)
                   /\ Remote({"get_dataset"} \cup LoadCalls(u.loads) \cup
                             (IF u.creates # <<>> THEN {"create_dataset"} ELSE {}))
                   /\ errLog' = errLog \o u.logged \o log_and_reraise(u.raised)
                   /\ IF u.raised THEN Raise("upload failed") ELSE Return(NoneVal)
    /\ UNCHANGED <<envVars, loopVars, loaded_total, file_paths, frames, airVars>>

NextNo2 == \/ No2Login \/ No2Search \/ No2DownloadFails \/ No2DownloadRaises
           \/ No2Download \/ No2File \/ No2GetDataEnd \/ No2Load

InitNo2 == Init /\ driver = "no2"

SpecNo2 == InitNo2 /\ [][NextNo2]_vars

-----------------------------------------------------------------------------
(* The two drivers that log in to Earthdata *)

InitEarthdata == Init /\ driver \in {"merra2", "no2"}

NextEarthdata == NextMerra \/ NextNo2

SpecEarthdata == InitEarthdata /\ [][NextEarthdata]_vars

-----------------------------------------------------------------------------
(* Any of the three drivers *)

(* The rows a finished run extracted from its source: the rows MERRA-2     *)
(* appended file by file, the table AirNow and NO2 built before the load.  *)
Extracted ==
    IF driver = "merra2" THEN SubSeq(sink, Len(sink0) + 1, Len(sink))
    ELSE Concat(frames)

(* What a finished run found: granules or days, their download or request *)
(* outcomes, and the rows extracted.                                        *)
Found ==
    [kind |-> "run", results |-> results, dlLog |-> dlLog, dayResult |-> dayResult,
     extracted |-> Extracted]


Next == NextMerra \/ NextAirnow \/ NextNo2

Spec == Init /\ [][Next]_vars

-----------------------------------------------------------------------------
(* A driver run a second time: a new process of the same script, over the  *)
(* destination table as the first run left it.  MERRA-2 finds DATA_DIR and *)
(* what was left in it; get_data makes a new temporary directory.          *)

Restart ==
    /\ pc = "done" /\ outcome = "returned" /\ run = 1
    /\ run' = 2
    /\ prev' = Found
    /\ sink0' = sink
    /\ pc' = "start" /\ outcome' = "running" /\ exc' = "none" /\ retval' = NoneVal
    /\ is_authenticated' = FALSE
    /\ lastLoad' = NoLoad /\ nLoads' = 0 /\ creates' = <<>> /\ errLog' = <<>>
    /\ calls' = {}
    /\ results' = 0 /\ gi' = 1 /\ dlLog' = <<>> /\ saved' = <<>>
    /\ scratch' = IF driver = "merra2" THEN scratch \cup {TmpDir} ELSE {}
    /\ loaded_total' = 0 /\ file_paths' = <<>> /\ frames' = <<>>
    /\ tries' = 0 /\ reqLog' = <<>> /\ waits' = <<>> /\ dayResult' = <<>>
    /\ UNCHANGED <<driver, cfgOK, dsExists, sink, peer, fnVars>>

NextRerun == Next \/ Restart

SpecRerun == Init /\ [][NextRerun]_vars

-----------------------------------------------------------------------------
(* Functions applied on their own, outside a run *)

runVars == <<driver, cfgOK, sink0, is_authenticated, run, prev, peer, ctlVars, whVars,
             calls, loopVars, loaded_total, file_paths, frames, airVars>>

(* The state in which the function is applied to one of the inputs args. *)
InitFn(args) ==
    /\ InitRun /\ driver = "merra2" /\ cfgOK /\ dsExists /\ sink0 = <<>>
    /\ fnArg \in args
    /\ fnRes = NoneVal

(* The function returns out for the input at hand. *)
Apply(kind, out) ==
    /\ fnArg.kind = kind /\ fnRes = NoneVal
    /\ fnRes' = out
    /\ UNCHANGED <<fnArg, runVars>>

RECURSIVE SortedSeqOf(_)
SortedSeqOf(S) ==
    IF S = {} THEN <<>>
    ELSE LET m == CHOOSE x \in S : \A y \in S : x <= y
         IN  <<m>> \o SortedSeqOf(S \ {m})

(* Longitudes of the 0..360 convention, every LonStep millidegrees, and    *)
(* the values 10, 350 and 360 degrees.                                      *)
LonInputs ==
    {k * LonStep : k \in 0..(360000 \div LonStep)} \cup {10000, 350000, 360000}

(* Longitude axes of sample files: ascending, with and without values      *)
(* above 180 degrees.                                                       *)
LonAxes ==
    {SortedSeqOf(S) : S \in SUBSET {0, 120000, 239000, 241000, 244000, 359000} \ {{}}}

(* Sample files on one latitude, with no NaN cell or with one. *)
LonGrids ==
    {Grid(TRUE, <<37000>>, lons, bad) : lons \in LonAxes,
                                         bad \in {{}, {<<37000, 239000>>}}}

LonArgs ==
    {[kind |-> "lon", x |-> x] : x \in LonInputs}
    \cup {[kind |-> "grid", ds |-> ds] : ds \in LonGrids}

(* to_minus180_180(x) for one longitude *)
ApplyLon == Apply("lon", [kind |-> "lon", y |-> to_minus180_180(fnArg.x)])

(* ds_to_dataframe(ds) for one file *)
ApplyGrid == Apply("grid", [kind |-> "frame", df |-> ds_to_dataframe(fnArg.ds)])

InitLon == InitFn(LonArgs)

(* Names of data variables: three of the default KEEP_VARS and one other. *)
VarNames == {"T2M", "PS", "SLP", "XYZ"}

(* Lists of up to n distinct names. *)
RECURSIVE NameLists(_)
NameLists(n) ==
    IF n = 0 THEN {<<>>}
    ELSE NameLists(n - 1) \cup
         {Append(l, v) : l \in {k \in NameLists(n - 1) : Len(k) = n - 1},
                         v \in VarNames}

KeepArgs ==
    {[kind |-> "vars", keep_vars |-> kv, data_vars |-> dv] :
        kv \in {l \in NameLists(MaxKeep) : Cardinality(RangeOf(l)) = Len(l)},
        dv \in {l \in NameLists(MaxKeep + 1) : Cardinality(RangeOf(l)) = Len(l)}}

(* The column selection of ds_to_dataframe for one allow-list and one file *)
ApplyKeepVars ==
    Apply("vars", [kind |-> "columns",
                   cols |-> keep_columns(fnArg.keep_vars, fnArg.data_vars)])

InitKeepVars == InitFn(KeepArgs)

NextKeepVars == ApplyKeepVars

SpecKeepVars == InitKeepVars /\ [][NextKeepVars]_vars

NextLon == ApplyLon \/ ApplyGrid

SpecLon == InitLon /\ [][NextLon]_vars

-----------------------------------------------------------------------------
(* Properties *)

Rows(load) == {load.rows[k] : k \in 1..Len(load.rows)}

Last(seq) == seq[Len(seq)]

(* Exceptions raised before any unit of work is processed. *)
StartupErrors ==
    { "RuntimeError: Earthaccess login failed", "RuntimeError: Faltan BQ_PROJECT_ID",
      "RuntimeError: Faltan variables de entorno", "ValueError: Failed to authenticate",
      "ValueError: Client is not authenticated",
      "create_dataset failed" }

(* C1: a MERRA-2 run never raises once the granule loop has started,       *)
(* whatever downloads fail; when it returns, every granule found was       *)
(* attempted, rows_total is the number of rows the successful uploads of   *)
(* this run appended to the destination table, and granules is the number  *)
(* of granules found.                                                       *)
C1_PartialFailureSummary ==
    driver = "merra2" =>
        /\ outcome = "raised" => (exc \in StartupErrors /\ dlLog = <<>> /\ nLoads = 0)
        /\ outcome = "returned" =>
              /\ Len(dlLog) = results
              /\ retval = Summary(Len(sink) - Len(sink0), results)

(* C1 witness: two granules, the first download failed, the second was     *)
(* downloaded and uploaded, and the run returned its rows.                  *)
C1_Witness ==
    /\ driver = "merra2" /\ outcome = "returned"
    /\ dlLog = <<"failed", "ok">>
    /\ retval.kind = "summary" /\ retval.rows_total > 0 /\ retval.granules = 2

(* C2: get_data never raises because one granule failed to download, to    *)
(* open or to convert.                                                      *)
C2_GranuleFailureIsolated ==
    driver = "no2" =>
        exc \notin {"get_data: download error", "get_data: conversion error"}

(* C3: for one day fetch_day issues at most 5 requests, a 200 answer is    *)
(* the last request of the day, the delay after the k-th failed attempt    *)
(* (counted from 0) is 2^k seconds, and after 5 failed attempts the day    *)
(* yields an empty table that adds nothing to the accumulated frames.      *)
C3_BoundedBackoff ==
    driver = "airnow" =>
        /\ Len(reqLog) <= 5
        /\ \A k \in 1..Len(reqLog) : reqLog[k] = "200" => (k = Len(reqLog) /\ tries = 0)
        /\ Len(waits) = Cardinality({k \in 1..Len(reqLog) : reqLog[k] = "non200"})
        /\ \A k \in 1..Len(waits) : waits[k] = 2 ^ (k - 1)
        /\ Len(waits) = 5 => (tries = 0 /\ dayResult # <<>> /\ Last(dayResult) = "gaveup")
        /\ Len(frames) = Cardinality({d \in 1..Len(dayResult) : dayResult[d] = "data"})

(* C3 witness: a day whose five requests all failed and that was given up. *)
C3_Witness ==
    /\ driver = "airnow"
    /\ reqLog = <<"non200", "non200", "non200", "non200", "non200">>
    /\ waits = <<1, 2, 4, 8, 16>>
    /\ Last(dayResult) = "gaveup"

(* C4: a request that raises (timeout) never aborts the AirNow run.        *)
C4_TimeoutIsolated ==
    driver = "airnow" =>
        \A k \in 1..Len(reqLog) : reqLog[k] = "raise" => outcome # "raised"

(* A finished run that got past its startup and whose search or fetch      *)
(* yielded no granule and no row.                                          *)
ZeroYieldRun ==
    /\ pc = "done" /\ exc \notin StartupErrors
    /\ CASE driver = "merra2" -> results = 0
         [] driver = "no2"    -> results = 0
         [] driver = "airnow" -> /\ gi > results
                                 /\ \A d \in 1..Len(dayResult) : dayResult[d] # "data"

(* C5: a run that yields zero granules or zero rows returns normally with  *)
(* a summary whose rows_total is 0.                                        *)
C5_ZeroYieldSummary ==
    ZeroYieldRun =>
        (outcome = "returned" /\ retval.kind = "summary" /\ retval.rows_total = 0)

(* C6: when get_data collected no frame (every granule failed to download, *)
(* to open, or was empty) its final filtering does not raise.              *)
C6_EmptyResultNoRaise ==
    (driver = "no2" /\ frames = <<>>) => exc # "get_data: KeyError"

(* C7: every row of a table loaded into the sink lies inside the geofence. *)
C7_LoadedRowsInsideGeofence ==
    \A r \in Rows(lastLoad) : InsidePoly(r)

(* C8: no row with a missing value (NaN, null timestamp) is in a table     *)
(* loaded into the sink.                                                   *)
C8_NoNullRowLoaded ==
    \A r \in Rows(lastLoad) : ~IsNullRow(r)

(* C9: no load request is issued for an empty table.                       *)
C9_NoEmptyLoad ==
    nLoads > 0 => lastLoad.rows # <<>>

(* C10: create_dataset is called only after the existence check reported   *)
(* not-found.                                                               *)
C10_CreateOnlyOnNotFound ==
    \A k \in 1..Len(creates) : creates[k].after = "notfound"

(* C11: once the NO2 driver has issued its load request, a job that       *)
(* finished with row-level errors makes the driver return normally with    *)
(* one error line logged per job error, and the driver raises exactly when *)
(* the load call itself failed, after logging that failure.                *)
C11_RowErrorsLoggedNotRaised ==
    (driver = "no2" /\ pc = "done" /\ nLoads > 0) =>
        /\ lastLoad.ok =>
              /\ outcome = "returned"
              /\ errLog = log_row_errors(lastLoad.errors)
        /\ ~lastLoad.ok =>
              /\ outcome = "raised" /\ exc = "upload failed"
              /\ errLog = <<"Error uploading data to BigQuery: exception">>

(* C11 witness: a load job finished with two row errors, both were logged, *)
(* and the driver returned.                                                 *)
C11_Witness ==
    /\ driver = "no2" /\ outcome = "returned" /\ nLoads = 1
    /\ Len(lastLoad.errors) = 2 /\ Len(errLog) = 2 /\ lastLoad.rows # <<>>

(* C12: a MERRA-2 or AirNow run that fails on missing configuration has   *)
(* issued no remote call before the failure.                               *)
C12_ConfigCheckedBeforeRemoteCalls ==
    exc \in {"RuntimeError: Faltan BQ_PROJECT_ID",
             "RuntimeError: Faltan variables de entorno"} => calls = {}

(* C13: while the Earthdata login has not succeeded, the MERRA-2 and NO2   *)
(* drivers have issued no remote call other than the login itself: no      *)
(* catalog search, no download, no dataset check or creation, no load.     *)
C13_NoWorkWithoutAuthentication ==
    (driver \in {"merra2", "no2"} /\ ~is_authenticated) => calls \subseteq {"login"}

(* C13 witness: a login was issued, it did not authenticate, and the run   *)
(* ended with the authentication error.                                     *)
C13_Witness ==
    /\ ~is_authenticated /\ calls = {"login"} /\ outcome = "raised"
    /\ exc \in {"RuntimeError: Earthaccess login failed",
                 "ValueError: Failed to authenticate"}

(* Paths of the files whose processing has ended: every file of the        *)
(* granules before the current one in MERRA-2, their first file (the only  *)
(* one get_data opens) in NO2.                                              *)
ProcessedPaths ==
    {p \in scratch \ {TmpDir} : p[1] < gi /\ (driver = "no2" => p[2] = 1)}

(* C14: when the next granule starts being processed, no file whose        *)
(* processing has ended is left in the scratch directory.                  *)
C14_ProcessedFileRemoved ==
    (driver \in {"merra2", "no2"} /\ pc \in {"loop", "gd_loop"}) => ProcessedPaths = {}

(* C15: when a MERRA-2 or NO2 run has ended, by return or by exception,    *)
(* nothing of its scratch directory exists any more.                       *)
C15_ScratchRemovedAtRunEnd ==
    (driver \in {"merra2", "no2"} /\ pc = "done") => scratch = {}

(* C16: when a second run of a driver found and extracted exactly what the *)
(* first run did, and returned, the destination table holds the same rows  *)
(* as after the first run.                                                  *)
C16_SecondRunLeavesSinkUnchanged ==
    (run = 2 /\ pc = "done" /\ outcome = "returned" /\ Found = prev) => sink = sink0

(* The table tbl holds the rows of blk as one contiguous block. *)
HoldsBlock(tbl, blk) ==
    \E i \in 0..(Len(tbl) - Len(blk)) : SubSeq(tbl, i + 1, i + Len(blk)) = blk

(* C17: with two MERRA-2 runs appending to the same table at the same     *)
(* time, the table holds the rows it had plus every row either run counted *)
(* as loaded, no more and no fewer, and the table of this run's latest     *)
(* successful load is in it as one whole block.                            *)
C17_ConcurrentAppendsKeepAllRows ==
    driver = "merra2" =>
        /\ Len(sink) = Len(sink0) + loaded_total + peer.loaded_total
        /\ SubSeq(sink, 1, Len(sink0)) = sink0
        /\ (nLoads > 0 /\ lastLoad.ok) => HoldsBlock(sink, lastLoad.rows)

(* C17 witness: both runs uploaded the one file of the one granule, and    *)
(* the table holds its rows twice.                                          *)
C17_Witness ==
    /\ driver = "merra2" /\ outcome = "returned" /\ results = 1
    /\ peer.last = <<1, 1>> /\ peer.loaded_total > 0
    /\ nLoads = 1 /\ lastLoad.ok
    /\ sink = sink0 \o lastLoad.rows \o lastLoad.rows

(* The signed longitude of a longitude of the 0..360 convention. *)
Signed(lon) == IF lon >= 180000 THEN lon - 360000 ELSE lon

(* The cells of a file that have a value and whose signed position is      *)
(* inside the polygon, as rows.                                             *)
SignedRowsInside(ds) ==
    {Row(TRUE, Signed(ds.lons[j]), ds.lats[i], "num", "ok") :
        <<i, j>> \in {c \in (1..Len(ds.lats)) \X (1..Len(ds.lons)) :
                         /\ <<ds.lats[c[1]], ds.lons[c[2]]>> \notin ds.bad
                         /\ contains_point(Signed(ds.lons[c[2]]), ds.lats[c[1]])}}

(* C18: for a longitude x of 0..360 degrees, to_minus180_180(x) is         *)
(* ((x + 180) mod 360) - 180, lies in [-180, 180) and is congruent to x    *)
(* modulo 360; 350 gives -10 and 10 gives 10; and for a file whose largest *)
(* longitude exceeds 180, ds_to_dataframe returns the cells at their       *)
(* signed longitudes, so the rewrite came before the bounding-box slice.   *)
C18_LongitudeRewrite ==
    /\ to_minus180_180(350000) = -10000
    /\ to_minus180_180(10000) = 10000
    /\ fnRes.kind = "lon" =>
          /\ fnRes.y = ((fnArg.x + 180000) % 360000) - 180000
          /\ fnRes.y >= -180000 /\ fnRes.y < 180000
          /\ (fnRes.y - fnArg.x) % 360000 = 0
    /\ (fnRes.kind = "frame" /\ SeqMax(fnArg.ds.lons) > 180000) =>
          /\ ~fnRes.df.raised
          /\ RangeOf(fnRes.df.rows) = SignedRowsInside(fnArg.ds)
          /\ Len(fnRes.df.rows) = Cardinality(SignedRowsInside(fnArg.ds))

(* C18 witness: a file with longitudes 239, 241 and 244 degrees was        *)
(* converted and its two cells inside the polygon came out at -121 and     *)
(* -119 degrees.                                                            *)
C18_Witness ==
    /\ fnRes.kind = "frame"
    /\ fnArg.ds.lons = <<239000, 241000, 244000>> /\ fnArg.ds.bad = {}
    /\ Len(fnRes.df.rows) = 2
    /\ fnRes.df.rows[1].lon = -121000 /\ fnRes.df.rows[2].lon = -119000

(* C19: with an allow-list, the measurement columns of the output are      *)
(* exactly the allow-listed names that exist in the file.                  *)
C19_OnlyAllowListedColumns ==
    (fnRes.kind = "columns" /\ fnArg.keep_vars # <<>>) =>
        RangeOf(fnRes.cols) = RangeOf(fnArg.keep_vars) \cap RangeOf(fnArg.data_vars)

(* The rows of a downloaded file that lie inside the polygon, in the order *)
(* of the file.                                                             *)
InsideRowsOf(f) == SelectSeq(to_dataframe(f.ds), InsidePoly)

(* tbl is made of the inside rows of some of the files fs, each file once, *)
(* in the order of fs.                                                      *)
EachOnceInOrder(tbl, fs) ==
    \E S \in SUBSET (1..Len(fs)) :
        tbl = Concat([k \in 1..Cardinality(S) |-> InsideRowsOf(fs[SortedSeqOf(S)[k]])])

(* C20: the table get_data returns holds the rows inside the polygon of    *)
(* the granule files it read, each row once, in the order of the file, the *)
(* granules in catalog order.                                               *)
C20_StableFilterCatalogOrder ==
    (driver = "no2" /\ pc = "got_data" /\ results > 0) =>
        EachOnceInOrder(Concat(frames), file_paths)

(* The counter and the table agree: the table is what it was when the run  *)
(* started followed by loaded_total rows.                                   *)
CounterMatchesSink ==
    /\ Len(sink) = Len(sink0) + loaded_total
    /\ SubSeq(sink, 1, Len(sink0)) = sink0

(* One step of the run: the counter does not decrease, it grows only with  *)
(* a load request that succeeded, by the size of the table loaded, and the *)
(* rows already in the table stay where they are.                           *)
CounterStep ==
    /\ loaded_total' >= loaded_total
    /\ loaded_total' > loaded_total =>
          /\ nLoads' = nLoads + 1 /\ lastLoad'.ok
          /\ loaded_total' = loaded_total + Len(lastLoad'.rows)
    /\ Len(sink') >= Len(sink) /\ SubSeq(sink', 1, Len(sink)) = sink

(* C21: in every reachable state of a MERRA-2 run loaded_total is the      *)
(* number of rows the run has appended to the table, and every step keeps  *)
(* the counter from decreasing, increases it only after a successful       *)
(* upload, and removes no row from the table.                               *)
C21_CounterAgreesWithSink ==
    [](driver = "merra2" => CounterMatchesSink) /\ [][CounterStep]_vars

(* C21 witness: over rows that were already there, one upload succeeded    *)
(* and was counted, a later one failed and was not.                         *)
C21_Witness ==
    /\ driver = "merra2" /\ sink0 # <<>>
    /\ nLoads = 2 /\ ~lastLoad.ok /\ lastLoad.rows # <<>>
    /\ loaded_total > 0 /\ Len(sink) = Len(sink0) + loaded_total

(* How many times the row r occurs in the table tbl. *)
Occurrences(r, tbl) == Cardinality({k \in 1..Len(tbl) : tbl[k] = r})

(* The rows inside the polygon of all the files downloaded, each file once. *)
DownloadedInside ==
    Concat([k \in 1..Len(file_paths) |-> InsideRowsOf(file_paths[k])])

(* C22: in the table get_data returns, no row occurs more often than in    *)
(* the downloaded granule files taken once each, whatever downloads failed *)
(* and whatever the per-file deletes did.                                   *)
C22_GranuleRowsNotRepeated ==
    (driver = "no2" /\ pc = "got_data" /\ results > 0) =>
        \A r \in RangeOf(Concat(frames)) :
            Occurrences(r, Concat(frames)) <= Occurrences(r, DownloadedInside)

(* A step of fetch_year: the result of a day is recorded at the position   *)
(* of that day and the loop then moves to the day after; a day that        *)
(* yielded no table leaves the accumulated frames as they were.             *)
DayStep ==
    /\ gi' # gi \/ dayResult' # dayResult =>
          /\ pc = "fetch_year" /\ gi <= results
          /\ gi' = gi + 1
          /\ Len(dayResult') = gi
          /\ SubSeq(dayResult', 1, gi - 1) = dayResult
          /\ dayResult'[gi] \in {"empty", "gaveup"} => frames' = frames
          /\ dayResult'[gi] = "data" => Len(frames') = Len(frames) + 1
    /\ frames' # frames => gi' # gi

(* fetch_year ran to its end: the run is over and no request raised. *)
FetchYearEnded ==
    pc = "done" /\ exc \notin StartupErrors \cup {"requests exception"}

CleanedNo2 == drop_duplicates(dropna(Concat(frames)))

(* C24: an NO2 run never leaves a destination table that held rows with    *)
(* none; when no row remains after dropna and drop_duplicates the run       *)
(* issues no load and the sink keeps its previous contents.                 *)
C24_No2NeverTruncatesToEmpty ==
    driver = "no2" =>
        /\ sink0 # <<>> => sink # <<>>
        /\ (pc = "done" /\ CleanedNo2 = <<>>) => (nLoads = 0 /\ sink = sink0)

====
